---- MODULE Spec2Model ----
(***************************************************************************)
(* Model of app.py: the startup sequence of the script, the six event     *)
(* handlers bound in create_interface, the five generation functions and  *)
(* generate_full_curriculum.                                               *)
(*                                                                         *)
(* Text is a sequence of tokens.  A token stands for one character of     *)
(* free text ("x"), or for one literal of the source (a header, a label,  *)
(* a separator), so that concatenation, emptiness, slicing and "contains" *)
(* are the operations of Sequences.  A Python value is a record           *)
(* [isNone, s]: None, or a str with text s.                                *)
(***************************************************************************)
EXTENDS Integers, Sequences, FiniteSets, TLC

VARIABLES
    main,            \* position of the script's top-level code
    env_key,         \* GROQ_API_KEY in the process environment
    client,          \* the module-level Groq client (line 20)
    console,         \* what the script has printed
    exit_status,     \* the exit status of the process, -1 while it runs
    form,            \* the five input components of the interface
    loc,             \* the locals of each running handler, by listener, with
                     \* the requests it sent (calls), how each ended
                     \* (outcomes) and what each generation function
                     \* returned (results)
    last             \* the run that ended most recently, with what it gave
                     \* the output pane

vars == <<main, env_key, client, console, exit_status, form, loc, last>>

----------------------------------------------------------------------------
(* Bounds of the model *)

\* how many characters the long reply text exceeds the plan-summary slice by
ExtraLen == 1

(* Program constants *)

\* current_plan[:500]
PlanSummaryLimit == 500

----------------------------------------------------------------------------
(* Text and Python values *)

Empty == << >>

Str(s) == [isNone |-> FALSE, s |-> s]
None == [isNone |-> TRUE, s |-> << >>]

\* Python truthiness of a str or None: "not v" is ~Truthy(v)
Truthy(v) == ~v.isNone /\ v.s # Empty

\* s[:n]
Slice(s, n) == SubSeq(s, 1, IF Len(s) < n THEN Len(s) ELSE n)

Contains(s, tok) == \E i \in 1..Len(s) : s[i] = tok

Count(s, tok) == Cardinality({i \in 1..Len(s) : s[i] = tok})

Rep(tok, n) == [i \in 1..n |-> tok]

----------------------------------------------------------------------------
(* Literals of the source, one token each; the emoji are left out *)

Sections == 1..5

\* the section headers of generate_full_curriculum
Header(k) ==
    CASE k = 1 -> "## 1. COURSE STRUCTURE\n\n"
      [] k = 2 -> "## 2. RECOMMENDED TOPICS\n\n"
      [] k = 3 -> "## 3. CURRICULUM TIMELINE\n\n"
      [] k = 4 -> "## 4. LEARNING OUTCOMES MAPPING\n\n"
      [] k = 5 -> "## 5. CURRICULUM OPTIMIZATION\n\n"

\* the headers the five individual-section lambdas prepend
ButtonHeader(k) ==
    CASE k = 1 -> "## COURSE STRUCTURE\n\n"
      [] k = 2 -> "## RECOMMENDED TOPICS\n\n"
      [] k = 3 -> "## CURRICULUM TIMELINE\n\n"
      [] k = 4 -> "## LEARNING OUTCOMES\n\n"
      [] k = 5 -> "## CURRICULUM OPTIMIZATION\n\n"

\* "Error <doing X>: " of the five except clauses, as the word Error and the rest
Doing(k) ==
    CASE k = 1 -> " generating course structure: "
      [] k = 2 -> " recommending topics: "
      [] k = 3 -> " creating curriculum plan: "
      [] k = 4 -> " mapping learning outcomes: "
      [] k = 5 -> " optimizing curriculum: "

ValidationMessage ==
    <<"Please fill in all required fields: Subject, Level, Duration, and Goals.">>

Separator == "\n\n---\n\n"

CompleteLine == "\n\nCurriculum design complete! Review each section above for your comprehensive academic plan."

\* lines 267-269
TitleBlock(subject, level, duration) ==
    <<"# COMPREHENSIVE CURRICULUM DESIGN SYSTEM\n\n", "**Subject:** ">> \o subject
      \o <<" | **Level:** ">> \o level \o <<" | **Duration:** ">> \o duration
      \o <<"\n\n", "---\n\n">>

----------------------------------------------------------------------------
(* The external chat-completion service *)

\* str(e) of the exception a failed call raises
ExceptionTexts == {Empty, <<"x">>}

\* response.choices[0].message.content of a call that succeeds: absent (None),
\* the empty string, a short text that happens to contain a section header,
\* and a text longer than the plan-summary slice
LongText == Rep("x", PlanSummaryLimit + ExtraLen)

Contents == {None, Str(Empty), Str(<<"x", Header(2)>>), Str(LongText)}

\* An outcome of client.chat.completions.create(...) followed by
\* response.choices[0].message.content: an exception anywhere inside the try
\* block (fail, with v its str(e)), or the content (v).
Outcomes ==
    {[fail |-> TRUE, v |-> Str(t)] : t \in ExceptionTexts}
      \cup {[fail |-> FALSE, v |-> c] : c \in Contents}

\* a slot the prompt template of a function does not have
NoSlot == <<"<no such slot>">>

\* The request a generation function sends: which function's template and
\* system message (fn), and the interpolated values of the template's slots.
\* extra is the fifth line of the template: Focus Area, Content or Current
\* Plan Summary.
Request(fn, subject, level, duration, goals, extra) ==
    [fn |-> fn, subject |-> subject, level |-> level, duration |-> duration,
     goals |-> goals, extra |-> extra]

\* f"{v}" of a str or None
Format(v) == IF v.isNone THEN <<"None">> ELSE v.s

----------------------------------------------------------------------------
(* The five generation functions: the request each sends (..._prompt) and *)
(* the value each returns for an outcome of its one call.  A returned     *)
(* record is [raised, v]: raised when an exception leaves the function.   *)

\* (a variant without the except clause: the exception leaves the function)
TryCompletionNoExcept(k, outcome) ==
    [raised |-> outcome.fail, v |-> outcome.v]

\* try: return <content>  except Exception as e: return f"Error <doing>: {str(e)}"
TryCompletion(k, outcome) ==
    IF outcome.fail
    THEN [raised |-> FALSE, v |-> Str(<<"Error", Doing(k)>> \o outcome.v.s)]
    ELSE [raised |-> FALSE, v |-> outcome.v]

generate_course_structure_prompt(subject, level, duration, goals) ==
    Request(1, subject, level, duration, goals, NoSlot)

generate_course_structure(outcome) == TryCompletion(1, outcome)

recommend_topics_prompt(subject, level, goals, focus_area) ==
    Request(2, subject, level, NoSlot, goals,
            IF focus_area # Empty THEN focus_area ELSE <<"General coverage">>)

recommend_topics(outcome) == TryCompletion(2, outcome)

\* structure is a parameter the template never uses
create_curriculum_plan_prompt(subject, level, duration, goals, structure) ==
    Request(3, subject, level, duration, goals, NoSlot)

\* (a variant that lets the exception of its call escape)
create_curriculum_plan_uncaught(outcome) ==
    IF outcome.fail THEN [raised |-> TRUE, v |-> outcome.v]
    ELSE TryCompletion(3, outcome)

create_curriculum_plan(outcome) == TryCompletion(3, outcome)

map_learning_outcomes_prompt(subject, level, modules_topics) ==
    Request(4, subject, level, NoSlot, NoSlot, Format(modules_topics))

map_learning_outcomes(outcome) == TryCompletion(4, outcome)

\* (a variant that interpolates the whole plan)
optimize_curriculum_prompt_unsliced(subject, level, duration, goals, current_plan) ==
    Request(5, subject, level, duration, goals,
            IF Truthy(current_plan)
            THEN current_plan.s
            ELSE <<"Generate fresh optimization">>)

optimize_curriculum_prompt(subject, level, duration, goals, current_plan) ==
    Request(5, subject, level, duration, goals,
            IF Truthy(current_plan)
            THEN Slice(current_plan.s, PlanSummaryLimit)
            ELSE <<"Generate fresh optimization">>)

optimize_curriculum(outcome) == TryCompletion(5, outcome)

\* the value generation function k returns
Returned(k, outcome) ==
    CASE k = 1 -> generate_course_structure(outcome)
      [] k = 2 -> recommend_topics(outcome)
      [] k = 3 -> create_curriculum_plan(outcome)
      [] k = 4 -> map_learning_outcomes(outcome)
      [] k = 5 -> optimize_curriculum(outcome)

----------------------------------------------------------------------------
(* The interface: its input components and event listeners *)

Fields == {"subject", "level", "duration", "goals", "focus_area"}

\* the values of the input components when the interface is created
InitialForm ==
    [subject |-> Empty, level |-> <<"Undergraduate (Bachelor's)">>,
     duration |-> Empty, goals |-> Empty, focus_area |-> Empty]

\* what a user can put into a component
FieldValues(f) ==
    IF f = "subject" THEN {Empty, <<"x">>, <<Header(1)>>}
    ELSE IF f = "level" THEN {Empty, <<"Undergraduate (Bachelor's)">>}
    ELSE {Empty, <<"x">>}

\* the six buttons with a click listener
Triggers ==
    {"generate_btn", "structure_btn", "topics_btn", "timeline_btn",
     "outcomes_btn", "optimize_btn"}

Buttons == Triggers \ {"generate_btn"}

\* the generation function a section button's lambda calls
SectionOf(h) ==
    CASE h = "structure_btn" -> 1
      [] h = "topics_btn" -> 2
      [] h = "timeline_btn" -> 3
      [] h = "outcomes_btn" -> 4
      [] h = "optimize_btn" -> 5

\* the request the lambda of section button h sends for inputs a
ButtonRequest(h, a) ==
    CASE h = "structure_btn" ->
           generate_course_structure_prompt(a.subject, a.level, a.duration, a.goals)
      [] h = "topics_btn" ->
           recommend_topics_prompt(a.subject, a.level, a.goals, a.focus_area)
      [] h = "timeline_btn" ->
           create_curriculum_plan_prompt(a.subject, a.level, a.duration, a.goals,
                                         Str(Empty))
      [] h = "outcomes_btn" ->
           map_learning_outcomes_prompt(a.subject, a.level,
                                        Str(<<"Course content as defined">>))
      [] h = "optimize_btn" ->
           optimize_curriculum_prompt(a.subject, a.level, a.duration, a.goals,
                                      Str(Empty))

\* the request step k of generate_full_curriculum sends, given its locals
FullRequest(k, a, structure, timeline) ==
    CASE k = 1 ->
           generate_course_structure_prompt(a.subject, a.level, a.duration, a.goals)
      [] k = 2 ->
           recommend_topics_prompt(a.subject, a.level, a.goals, a.focus_area)
      [] k = 3 ->
           create_curriculum_plan_prompt(a.subject, a.level, a.duration, a.goals,
                                         structure)
      [] k = 4 ->
           map_learning_outcomes_prompt(a.subject, a.level, structure)
      [] k = 5 ->
           optimize_curriculum_prompt(a.subject, a.level, a.duration, a.goals,
                                      timeline)

\* (a variant that also demands the optional field)
MissingRequiredOrFocus(a) ==
    a.subject = Empty \/ a.level = Empty \/ a.duration = Empty \/ a.goals = Empty
      \/ a.focus_area = Empty

\* line 264: not subject or not level or not duration or not goals
MissingRequired(a) ==
    a.subject = Empty \/ a.level = Empty \/ a.duration = Empty \/ a.goals = Empty

\* no handler is running
NoHandlers == [h \in {} |-> 0]

\* handler h starts, with locals l
Started(h, l) == [g \in DOMAIN loc \cup {h} |-> IF g = h THEN l ELSE loc[g]]

\* handler h ends
Without(h) == [g \in DOMAIN loc \ {h} |-> loc[g]]

\* no run has ended since the user last touched the interface
NoRun ==
    [trigger |-> "none", status |-> "none", args |-> InitialForm, value |-> Empty,
     calls |-> << >>, outcomes |-> << >>, results |-> << >>]

\* the record of the run of h that ends with locals l: it returned value
\* (status "returned") or an exception left the handler (status "fault")
Ended(h, status, l, value) ==
    [trigger |-> h, status |-> status, args |-> l.args, value |-> value,
     calls |-> l.calls, outcomes |-> l.outcomes, results |-> l.results]

\* The handlers with an external request outstanding.  A handler blocks in
\* client.chat.completions.create from its first request to its end, but for
\* the string operations between two calls: every running handler has one.
InFlight == DOMAIN loc

----------------------------------------------------------------------------
(* generate_full_curriculum, cut at its five blocking calls *)

\* (a variant with the timeline and outcomes headers exchanged)
SectionHeaderSwapped(k) == Header(IF k = 3 THEN 4 ELSE IF k = 4 THEN 3 ELSE k)

\* the header literal appended before the call of step k (lines 272, 276,
\* 280, 284, 288)
SectionHeader(k) == Header(k)

\* (a variant that sends the first two requests without waiting)
FullStartTwoRequests(a) ==
    [args |-> a, k |-> 1,
     output |-> TitleBlock(a.subject, a.level, a.duration) \o <<SectionHeader(1)>>,
     structure |-> None, timeline |-> None,
     calls |-> <<FullRequest(1, a, None, None), FullRequest(2, a, None, None)>>,
     outcomes |-> << >>, results |-> << >>]

\* lines 264-273: the locals when the first request is outstanding
FullStart(a) ==
    [args |-> a, k |-> 1,
     output |-> TitleBlock(a.subject, a.level, a.duration) \o <<SectionHeader(1)>>,
     structure |-> None, timeline |-> None,
     calls |-> <<FullRequest(1, a, None, None)>>, outcomes |-> << >>,
     results |-> << >>]

\* From the return of call l.k to the next call or to the return statement:
\* "output += <returned> + separator" raises TypeError for None; otherwise
\* the next header is appended and the next request sent, or the closing
\* line is appended and output returned.
FullStep(l, outcome) ==
    LET r == Returned(l.k, outcome)
        outs == Append(l.outcomes, outcome)
        ress == IF r.raised THEN l.results ELSE Append(l.results, r.v)
        out1 == l.output \o r.v.s \o <<Separator>>
        l1 == [l EXCEPT !.output = out1, !.outcomes = outs, !.results = ress,
                        !.structure = IF l.k = 1 THEN r.v ELSE @,
                        !.timeline = IF l.k = 3 THEN r.v ELSE @]
    IN  IF r.raised \/ r.v.isNone
        THEN [status |-> "fault",
              l |-> [l EXCEPT !.outcomes = outs, !.results = ress],
              value |-> Empty]
        ELSE IF l.k < 5
        THEN [status |-> "continue",
              l |-> [l1 EXCEPT !.k = l.k + 1,
                               !.output = out1 \o <<SectionHeader(l.k + 1)>>,
                               !.calls = Append(@, FullRequest(l.k + 1, l.args,
                                                   l1.structure, l1.timeline))],
              value |-> Empty]
        ELSE [status |-> "returned", l |-> l1,
              value |-> out1 \o <<CompleteLine>>]

(* the lambdas of the five section buttons *)

ButtonStart(h, a) ==
    [args |-> a, k |-> SectionOf(h),
     calls |-> <<ButtonRequest(h, a)>>, outcomes |-> << >>, results |-> << >>]

\* "<header>" + <returned>: TypeError for None
ButtonStep(l, outcome) ==
    LET r == Returned(l.k, outcome)
        outs == Append(l.outcomes, outcome)
        ress == IF r.raised THEN l.results ELSE Append(l.results, r.v)
        l1 == [l EXCEPT !.outcomes = outs, !.results = ress]
    IN  IF r.raised \/ r.v.isNone
        THEN [status |-> "fault", l |-> l1, value |-> Empty]
        ELSE [status |-> "returned", l |-> l1,
              value |-> <<ButtonHeader(l.k)>> \o r.v.s]

----------------------------------------------------------------------------
(* Startup: the top-level code of the script *)

EnvKeys == {"absent", "empty", "set"}

Init ==
    /\ main = "import"
    /\ env_key \in EnvKeys
    /\ client = "undefined"
    /\ console = << >>
    /\ exit_status = -1
    /\ form = InitialForm
    /\ loc = NoHandlers
    /\ last = NoRun

\* line 20: client = Groq(api_key=os.getenv("GROQ_API_KEY")).  The constructor
\* raises GroqError when it is given no key and the environment has none; the
\* uncaught exception ends the script with a traceback and status 1.
ConstructClient ==
    /\ main = "import"
    /\ IF env_key = "absent"
       THEN /\ main' = "exited"
            /\ console' = Append(console, "Traceback: GroqError")
            /\ exit_status' = 1
            /\ UNCHANGED client
       ELSE /\ main' = "main_check"
            /\ client' = "constructed"
            /\ UNCHANGED <<console, exit_status>>
    /\ UNCHANGED <<env_key, form, loc, last>>

\* lines 468-471: if not os.getenv("GROQ_API_KEY"): print ...; exit(1)
MissingKeyExit ==
    /\ main = "main_check"
    /\ env_key \in {"absent", "empty"}
    /\ main' = "exited"
    /\ console' = console \o <<"ERROR: GROQ_API_KEY not found in .env file",
                               "Please create a .env file with: GROQ_API_KEY=your_api_key_here">>
    /\ exit_status' = 1
    /\ UNCHANGED <<env_key, client, form, loc, last>>

\* lines 473-477: the key is there; print the banner and create the interface
CreateInterface ==
    /\ main = "main_check"
    /\ env_key \notin {"absent", "empty"}
    /\ main' = "created"
    /\ console' = console \o <<"Starting AI Curriculum Design System...",
                               "Access the application at: http://localhost:7860">>
    /\ UNCHANGED <<env_key, client, exit_status, form, loc, last>>

\* lines 478-483: app.launch(...) serves until the server is stopped
Launch ==
    /\ main = "created"
    /\ main' = "serving"
    /\ UNCHANGED <<env_key, client, console, exit_status, form, loc, last>>

\* launch returns when the server is stopped; line 485, ui.launch(), then
\* raises NameError and the process ends with its handlers
ServerStop ==
    /\ main = "serving"
    /\ main' = "exited"
    /\ console' = Append(console, "Traceback: NameError")
    /\ exit_status' = 1
    /\ loc' = NoHandlers
    /\ last' = NoRun
    /\ UNCHANGED <<env_key, client, form>>

----------------------------------------------------------------------------
(* The interface at work.  A handler runs from the click to its first     *)
(* request in one step, and from each reply to the next request or to its *)
(* end in one step.  Handlers share no state, so the record of an earlier *)
(* run is dropped as soon as the user touches the interface again.        *)

\* One user, who waits for the output before touching the interface again.
Waited == InFlight = {}

\* the user changes one input component
EditField(f, v) ==
    /\ main = "serving"
    /\ InFlight = {}
    /\ form[f] # v
    /\ form' = [form EXCEPT ![f] = v]
    /\ last' = NoRun
    /\ UNCHANGED <<main, env_key, client, console, exit_status, loc>>

\* generate_btn.click with a required field missing: the message, no request
FullRejected ==
    /\ main = "serving"
    /\ "generate_btn" \notin DOMAIN loc
    /\ MissingRequired(form)
    /\ last' = Ended("generate_btn", "returned",
                     [args |-> form, calls |-> << >>, outcomes |-> << >>,
                      results |-> << >>],
                     ValidationMessage)
    /\ UNCHANGED <<main, env_key, client, console, exit_status, form, loc>>

\* generate_btn.click with the required fields filled: up to the first request
FullClick ==
    /\ main = "serving"
    /\ "generate_btn" \notin DOMAIN loc
    /\ ~MissingRequired(form)
    /\ loc' = Started("generate_btn", FullStart(form))
    /\ last' = NoRun
    /\ UNCHANGED <<main, env_key, client, console, exit_status, form>>

\* a section button's click: its lambda sends its request at once
ButtonClick(h) ==
    /\ main = "serving"
    /\ h \in Buttons
    /\ h \notin DOMAIN loc
    /\ loc' = Started(h, ButtonStart(h, form))
    /\ last' = NoRun
    /\ UNCHANGED <<main, env_key, client, console, exit_status, form>>

\* the outstanding request of handler h ends with outcome o
Reply(h, o) ==
    /\ main = "serving"
    /\ h \in DOMAIN loc
    /\ LET n == IF h = "generate_btn" THEN FullStep(loc[h], o)
                ELSE ButtonStep(loc[h], o)
       IN  IF n.status = "continue"
           THEN /\ loc' = [loc EXCEPT ![h] = n.l]
                /\ UNCHANGED last
           ELSE /\ loc' = Without(h)
                /\ last' = Ended(h, n.status, n.l, n.value)
    /\ UNCHANGED <<main, env_key, client, console, exit_status, form>>

Startup ==
    ConstructClient \/ MissingKeyExit \/ CreateInterface \/ Launch \/ ServerStop

Next ==
    \/ Startup
    \/ \E f \in Fields : \E v \in FieldValues(f) : EditField(f, v)
    \/ Waited /\ FullRejected
    \/ Waited /\ FullClick
    \/ \E h \in Buttons : Waited /\ ButtonClick(h)
    \/ \E h \in Triggers : \E o \in Outcomes : Reply(h, o)

Spec == Init /\ [][Next]_vars

\* The toolkit serves every listener on its own and the server accepts any
\* number of clients (server_name 0.0.0.0, no queue or concurrency setting in
\* create_interface): a click is taken whenever its own listener is free,
\* whatever the other listeners are doing.  The replies are a failure, an
\* absent content and a text.
ConcOutcomes ==
    {[fail |-> TRUE, v |-> Str(<<"x">>)], [fail |-> FALSE, v |-> None],
     [fail |-> FALSE, v |-> Str(<<"x">>)]}

NextConc ==
    \/ Startup
    \/ \E f \in Fields : \E v \in FieldValues(f) : EditField(f, v)
    \/ FullRejected
    \/ FullClick
    \/ \E h \in Buttons : ButtonClick(h)
    \/ \E h \in Triggers : \E o \in ConcOutcomes : Reply(h, o)

SpecConc == Init /\ [][NextConc]_vars

----------------------------------------------------------------------------
(* What the properties below speak about *)

Required == {"subject", "level", "duration", "goals"}

AnyRequiredEmpty(a) == \E f \in Required : a[f] = Empty

AllFilled(a) == \A f \in Fields : a[f] # Empty

\* the text generation function k is to hand back for outcome o: the reply
\* text, or "Error <doing X>: <exception text>"
Body(k, o) == IF o.fail THEN <<"Error", Doing(k)>> \o o.v.s ELSE o.v.s

FullWaiting == "generate_btn" \in InFlight

FullLocals == loc["generate_btn"]

\* a run of generate_full_curriculum that passed validation has ended
FullEnded ==
    /\ last.trigger = "generate_btn"
    /\ last.status # "none"
    /\ ~AnyRequiredEmpty(last.args)

FullReturned == FullEnded /\ last.status = "returned"

Section(k, o) == <<Header(k)>> \o Body(k, o) \o <<Separator>>

\* title block, the sections 1..n in order, each header directly before its
\* section's text
Sections1To(n, a, outs) ==
    TitleBlock(a.subject, a.level, a.duration)
      \o (IF n >= 1 THEN Section(1, outs[1]) ELSE << >>)
      \o (IF n >= 2 THEN Section(2, outs[2]) ELSE << >>)
      \o (IF n >= 3 THEN Section(3, outs[3]) ELSE << >>)
      \o (IF n >= 4 THEN Section(4, outs[4]) ELSE << >>)
      \o (IF n >= 5 THEN Section(5, outs[5]) ELSE << >>)

InOrder(calls) == \A i \in 1..Len(calls) : calls[i].fn = i

----------------------------------------------------------------------------
(* C1: generate_full_curriculum returns the fixed validation message and   *)
(* sends no request exactly when one of subject, level, duration, goals is *)
(* empty; the optional focus_area never brings the message about: with the *)
(* four required fields filled the run goes on to its first request.       *)
C1_ValidationShortCircuit ==
    /\ (last.trigger = "generate_btn" /\ last.status # "none") =>
          IF AnyRequiredEmpty(last.args)
          THEN /\ last.status = "returned"
               /\ last.value = ValidationMessage
               /\ last.calls = << >>
          ELSE /\ last.value # ValidationMessage
               /\ last.calls # << >>
    /\ FullWaiting =>
          /\ ~AnyRequiredEmpty(FullLocals.args)
          /\ FullLocals.calls # << >>

\* rejected for an empty goals field although focus_area is filled
C1_Witness ==
    /\ last.trigger = "generate_btn"
    /\ last.value = ValidationMessage
    /\ last.calls = << >>
    /\ last.args.goals = Empty
    /\ last.args.subject # Empty
    /\ last.args.focus_area # Empty

(* C2 as stated: in every returned document of a validated run each of the *)
(* five header literals appears exactly once, sections in the order 1..5.  *)
C2_HeaderExactlyOnce ==
    FullReturned =>
        /\ InOrder(last.calls)
        /\ \A k \in Sections : Count(last.value, Header(k)) = 1

(* C2, amended: the requests of a validated run are sent in the order 1..5 *)
(* (what has been sent is always a prefix of it), the document under       *)
(* construction and the returned document are the title block followed by  *)
(* the sections in that order, each header placed once by the code and     *)
(* directly before its section's text; a header literal that the inputs or *)
(* a reply text contain appears again at that place.                        *)
C2_FixedOrder ==
    /\ FullWaiting =>
          /\ Len(FullLocals.calls) = FullLocals.k
          /\ InOrder(FullLocals.calls)
          /\ FullLocals.output =
                Sections1To(FullLocals.k - 1, FullLocals.args, FullLocals.outcomes)
                  \o <<Header(FullLocals.k)>>
    /\ FullEnded => InOrder(last.calls)
    /\ FullReturned =>
          /\ Len(last.calls) = 5
          /\ last.value = Sections1To(5, last.args, last.outcomes) \o <<CompleteLine>>

\* a returned document in which a reply text repeats the header of section 2
C2_Witness ==
    /\ FullReturned
    /\ Len(last.calls) = 5
    /\ last.args.subject = <<"x">>
    /\ last.outcomes[1].v = Str(<<"x", Header(2)>>)
    /\ \A k \in 2..5 : last.outcomes[k].v = Str(Empty) /\ ~last.outcomes[k].fail

\* every failed call of a run became the Error string of its function
FailuresHandled(calls, outcomes, results) ==
    \A i \in 1..Len(outcomes) :
        outcomes[i].fail =>
            /\ i <= Len(results)
            /\ ~results[i].isNone
            /\ results[i].s = <<"Error", Doing(calls[i].fn)>> \o outcomes[i].v.s
            /\ Contains(results[i].s, "Error")

(* C3: when its call fails, a generation function returns the string      *)
(* "Error <doing X>: <exception text>", which contains the word Error, and *)
(* no exception leaves it; no handler, the combined one included, ends in  *)
(* a fault because of a failed call.                                        *)
C3_FailureBecomesErrorString ==
    /\ \A h \in InFlight :
          FailuresHandled(loc[h].calls, loc[h].outcomes, loc[h].results)
    /\ FailuresHandled(last.calls, last.outcomes, last.results)
    /\ last.status = "fault" => ~last.outcomes[Len(last.outcomes)].fail

\* a section button's run whose call failed returned header and Error string
C3_Witness ==
    /\ last.trigger = "timeline_btn"
    /\ last.status = "returned"
    /\ last.outcomes[1].fail
    /\ last.value = <<ButtonHeader(3), "Error", Doing(3), "x">>

NonEmptyStrings(results) ==
    \A i \in 1..Len(results) : ~results[i].isNone /\ results[i].s # Empty

(* C4 as stated: for non-empty inputs every generation function returns a  *)
(* non-empty string, whatever the outcome of its call.                      *)
C4_NonEmptyString ==
    /\ \A h \in InFlight : AllFilled(loc[h].args) => NonEmptyStrings(loc[h].results)
    /\ AllFilled(last.args) => NonEmptyStrings(last.results)

(* C5 as stated: for each of the six triggers no request is sent while a   *)
(* required field is empty, and the run shows the validation message.      *)
C5_NoCallWhenFieldMissing ==
    /\ \A h \in InFlight : ~AnyRequiredEmpty(loc[h].args)
    /\ (last.status # "none" /\ AnyRequiredEmpty(last.args)) =>
          /\ last.calls = << >>
          /\ last.value = ValidationMessage

(* C6 as stated: a run of a section button sends exactly one request and a *)
(* validated run of the combined path exactly five, never more.            *)
C6_ExactRequestCounts ==
    /\ \A h \in InFlight : Len(loc[h].calls) <= 5
    /\ (last.status # "none" /\ last.trigger \in Buttons) => Len(last.calls) = 1
    /\ FullEnded => Len(last.calls) = 5

(* C7 as stated: no interleaving of trigger actions reaches a state with   *)
(* two outstanding external requests.                                       *)
C7_OneInFlight == Cardinality(InFlight) <= 1

(* C7, amended: each running handler has at most one request outstanding:  *)
(* it has exactly one while it waits, call k+1 is sent only after call k   *)
(* has ended, and a handler that has ended has none; handlers of different *)
(* listeners run side by side, each with its own outstanding request.      *)
C7_OneInFlightPerHandler ==
    /\ \A h \in InFlight : Len(loc[h].calls) = Len(loc[h].outcomes) + 1
    /\ last.status # "none" => Len(last.calls) = Len(last.outcomes)

\* the combined path waits for its second reply while a button's request is
\* outstanding too
C7_Witness ==
    /\ FullWaiting
    /\ FullLocals.k = 2
    /\ Cardinality(InFlight) >= 2

(* C8 as stated: without GROQ_API_KEY in the environment startup ends with *)
(* the diagnostic message and status 1, before anything that needs the key *)
(* fails, and the interface is neither created nor launched.                *)
C8_DiagnosticOnMissingKey ==
    (env_key = "absent" /\ main # "import") =>
        /\ main \in {"main_check", "exited"}
        /\ ~Contains(console, "Traceback: GroqError")
        /\ main = "exited" =>
              /\ exit_status = 1
              /\ console = <<"ERROR: GROQ_API_KEY not found in .env file",
                             "Please create a .env file with: GROQ_API_KEY=your_api_key_here">>

\* where section k starts in a returned document
SectionStart(k) ==
    Len(TitleBlock(last.args.subject, last.args.level, last.args.duration))
      + (IF k > 1 THEN Len(last.results[1].s) + 2 ELSE 0)
      + (IF k > 2 THEN Len(last.results[2].s) + 2 ELSE 0)
      + (IF k > 3 THEN Len(last.results[3].s) + 2 ELSE 0)
      + (IF k > 4 THEN Len(last.results[4].s) + 2 ELSE 0)
      + 1

(* C9: a failed call never aborts a validated run of the combined path: a  *)
(* run ends in a fault only after a call that did not fail, a run that      *)
(* returns has attempted all five calls, its document holds all five        *)
(* headers, a failed section has its Error string as body, and the          *)
(* document ends with the completion line, also when all five calls failed. *)
C9_FailuresNeverAbort ==
    /\ (FullEnded /\ last.status = "fault") =>
          ~last.outcomes[Len(last.outcomes)].fail
    /\ FullWaiting => Len(FullLocals.outcomes) = FullLocals.k - 1
    /\ FullReturned =>
          /\ Len(last.calls) = 5
          /\ Len(last.outcomes) = 5
          /\ last.value[Len(last.value)] = CompleteLine
          /\ \A k \in Sections :
                /\ last.value[SectionStart(k)] = Header(k)
                /\ last.outcomes[k].fail =>
                      SubSeq(last.value, SectionStart(k) + 1,
                             SectionStart(k) + 2 + Len(last.outcomes[k].v.s))
                        = <<"Error", Doing(k)>> \o last.outcomes[k].v.s

\* all five calls failed and the document is complete
C9_Witness ==
    /\ FullReturned
    /\ \A k \in Sections : last.outcomes[k].fail
    /\ last.value[Len(last.value)] = CompleteLine

\* the data flow between the requests sent so far by a validated run
DataFlow(a, calls, outcomes) ==
    /\ Len(calls) >= 3 =>
          calls[3] = [fn |-> 3, subject |-> a.subject, level |-> a.level,
                      duration |-> a.duration, goals |-> a.goals, extra |-> NoSlot]
    /\ Len(calls) >= 4 => calls[4].extra = Body(1, outcomes[1])
    /\ Len(calls) >= 5 =>
          LET plan == Body(3, outcomes[3])
              sent == calls[5].extra
          IN  IF plan = Empty
              THEN sent = <<"Generate fresh optimization">>
              ELSE /\ Len(sent) = (IF Len(plan) < PlanSummaryLimit
                                   THEN Len(plan) ELSE PlanSummaryLimit)
                   /\ \A i \in 1..Len(sent) : sent[i] = plan[i]

(* C10: in the combined path the string step 1 returned is the Content of  *)
(* the step-4 request verbatim, the first 500 characters and no more of    *)
(* the string step 3 returned are the Current Plan Summary of the step-5   *)
(* request, the placeholder standing in only when that string is empty;    *)
(* an Error string of a failed step is forwarded the same way; the step-3  *)
(* request is made of the form inputs alone.                                *)
C10_DataFlow ==
    /\ FullWaiting =>
          DataFlow(FullLocals.args, FullLocals.calls, FullLocals.outcomes)
    /\ FullEnded => DataFlow(last.args, last.calls, last.outcomes)

\* step 1 failed and its Error string went into request 4; step 3 replied
\* with more than 500 characters and request 5 carries 500 of them
C10_Witness ==
    /\ FullReturned
    /\ last.outcomes[1].fail
    /\ last.calls[4].extra = <<"Error", Doing(1), "x">>
    /\ last.outcomes[3].v = Str(LongText)
    /\ Len(last.calls[5].extra) = PlanSummaryLimit
    /\ Len(last.results[3].s) > PlanSummaryLimit

====
